---- MODULE Spec2Model ----
(***************************************************************************)
(* Mind Flow: the measurement-validation module (validators and the        *)
(* Health Score formula) and the dashboard's short-circuit check-in         *)
(* validator.                                                               *)
(*                                                                          *)
(* JavaScript numbers are kept as fixed-point hundredths, so 3.8 is 380    *)
(* and the result of toFixed(2) is an integer number of hundredths.  A     *)
(* JavaScript value is a record [type, hundredths]; `undefined` (a missing *)
(* field) is a value of its own type.  A missing string field is the key   *)
(* "undefined", which is what a property lookup and a template string make *)
(* of it.                                                                   *)
(***************************************************************************)
EXTENDS Integers, Sequences, FiniteSets, TLC

VARIABLES call, res, prev, registry, app

vars == <<call, res, prev, registry, app>>

\* prev before any call has completed
NoPrev == [fn |-> "none"]

\* app while the dashboard component is not rendered
Unmounted == [tab |-> "none"]

(***************************************************************************)
(* JavaScript values                                                        *)
(***************************************************************************)
Hundredths == 100

Num(h) == [type |-> "number", hundredths |-> h]

Whole(n) == Num(n * Hundredths)

Undefined == [type |-> "undefined", hundredths |-> 0]

IsNumber(v) == v.type = "number"

\* Number.isInteger(v)
IsInteger(v) == IsNumber(v) /\ v.hundredths % Hundredths = 0

\* v < n and v > n for an integer literal n; false when v is undefined (NaN)
LessThan(v, n) == IsNumber(v) /\ v.hundredths < n * Hundredths

GreaterThan(v, n) == IsNumber(v) /\ v.hundredths > n * Hundredths

\* a < b and a >= b between two values; false when either is undefined (NaN)
Less(a, b) == IsNumber(a) /\ IsNumber(b) /\ a.hundredths < b.hundredths

GreaterEq(a, b) == IsNumber(a) /\ IsNumber(b) /\ a.hundredths >= b.hundredths

\* { valid: errors.length === 0, errors }
ResultOfMutantAlwaysValid(errors) == [valid |-> TRUE, errors |-> errors]

ResultOf(errors) == [valid |-> Len(errors) = 0, errors |-> errors]

Pending == [status |-> "pending"]

(***************************************************************************)
(* Scale registry of the validation module                                  *)
(***************************************************************************)
VIBE_ORDERMutantDuplicateValue ==
  << [label |-> "Terrible", value |-> Whole(1)],
     [label |-> "Down",     value |-> Whole(2)],
     [label |-> "Neutral",  value |-> Whole(3)],
     [label |-> "Good",     value |-> Whole(5)],
     [label |-> "Great",    value |-> Whole(5)] >>

VIBE_ORDER ==
  << [label |-> "Terrible", value |-> Whole(1)],
     [label |-> "Down",     value |-> Whole(2)],
     [label |-> "Neutral",  value |-> Whole(3)],
     [label |-> "Good",     value |-> Whole(4)],
     [label |-> "Great",    value |-> Whole(5)] >>

VibeLabels == {VIBE_ORDER[i].label : i \in DOMAIN VIBE_ORDER}

\* Members every plain object inherits from Object.prototype: a lookup of one
\* of these keys finds a function, which is truthy and has no own .value,
\* [0] or [1].
ObjectPrototypeKeys ==
  {"constructor", "toString", "valueOf", "hasOwnProperty", "isPrototypeOf",
   "propertyIsEnumerable", "toLocaleString", "__proto__"}

Inherited == [label |-> "[inherited]", value |-> Undefined]

NotFound == [label |-> "[undefined]", value |-> Undefined]

\* VIBE_BY_LABEL[key]: a plain object built by Object.fromEntries
VIBE_BY_LABEL(key) ==
  IF key \in VibeLabels
    THEN CHOOSE e \in {VIBE_ORDER[i] : i \in DOMAIN VIBE_ORDER} : e.label = key
    ELSE IF key \in ObjectPrototypeKeys THEN Inherited ELSE NotFound

Truthy(entry) == entry # NotFound

\* String(value), the property key a number is converted to
PropertyKey(value) ==
  IF ~IsNumber(value) THEN "undefined"
  ELSE LET h     == value.hundredths
           a     == IF h < 0 THEN -h ELSE h
           whole == a \div Hundredths
           frac  == a % Hundredths
       IN  (IF h < 0 THEN "-" ELSE "") \o ToString(whole)
           \o (IF frac = 0 THEN ""
               ELSE IF frac % 10 = 0 THEN "." \o ToString(frac \div 10)
               ELSE IF frac < 10 THEN ".0" \o ToString(frac)
               ELSE "." \o ToString(frac))

\* VIBE_BY_VALUE[value]: Object.fromEntries keeps the last entry of a key
VIBE_BY_VALUE(value) ==
  LET hits == {i \in DOMAIN VIBE_ORDER :
                 PropertyKey(VIBE_ORDER[i].value) = PropertyKey(value)}
  IN  IF hits = {} THEN NotFound
      ELSE VIBE_ORDER[CHOOSE i \in hits : \A j \in hits : j <= i]

ENGAGEMENT_ORDER == << "Low", "Moderate", "High", "Excellent" >>

ENGAGEMENT_RANK == [t \in {ENGAGEMENT_ORDER[i] : i \in DOMAIN ENGAGEMENT_ORDER} |->
                      (CHOOSE i \in DOMAIN ENGAGEMENT_ORDER : ENGAGEMENT_ORDER[i] = t) - 1]

(***************************************************************************)
(* 1. validateVibeCheckIn                                                   *)
(***************************************************************************)
OrdinalRangeError(moodValue) ==
  [kind |-> "OrdinalRange", value |-> moodValue]

UnknownLabelError(moodLabel) ==
  [kind |-> "UnknownLabel", label |-> moodLabel]

HomomorphismError(moodLabel, expected, given) ==
  [kind |-> "Homomorphism", label |-> moodLabel,
   expected |-> expected, given |-> given]

EmpiricalOrderError(sad, happy) ==
  [kind |-> "EmpiricalOrder", sad |-> sad, happy |-> happy]

\* (a) range check
RangeErrorsMutantExclusiveUpper(moodValue) ==
  IF ~IsInteger(moodValue) \/ LessThan(moodValue, 1) \/ ~LessThan(moodValue, 5)
    THEN << OrdinalRangeError(moodValue) >> ELSE << >>

RangeErrors(moodValue) ==
  IF ~IsInteger(moodValue) \/ LessThan(moodValue, 1) \/ GreaterThan(moodValue, 5)
    THEN << OrdinalRangeError(moodValue) >> ELSE << >>

\* (b) label <-> value homomorphism
HomomorphismErrorsMutantSwapped(moodValue, moodLabel) ==
  LET canonicalEntry == VIBE_BY_LABEL(moodLabel)
  IN  IF ~Truthy(canonicalEntry)
        THEN << UnknownLabelError(moodLabel) >>
        ELSE IF canonicalEntry.value # moodValue
          THEN << HomomorphismError(moodLabel, moodValue, canonicalEntry.value) >>
          ELSE << >>

HomomorphismErrors(moodValue, moodLabel) ==
  LET canonicalEntry == VIBE_BY_LABEL(moodLabel)
  IN  IF ~Truthy(canonicalEntry)
        THEN << UnknownLabelError(moodLabel) >>
        ELSE IF canonicalEntry.value # moodValue
          THEN << HomomorphismError(moodLabel, canonicalEntry.value, moodValue) >>
          ELSE << >>

\* (c) "Terrible" must be below "Great"
OrderSanityErrors ==
  LET sadEntry   == VIBE_BY_LABEL("Terrible")
      happyEntry == VIBE_BY_LABEL("Great")
  IN  IF GreaterEq(sadEntry.value, happyEntry.value)
        THEN << EmpiricalOrderError(sadEntry.value, happyEntry.value) >>
        ELSE << >>

validateVibeCheckInMutantShortCircuit(checkIn) ==
  LET range == RangeErrors(checkIn.moodValue)
  IN  ResultOf(IF range # << >> THEN range
               ELSE HomomorphismErrors(checkIn.moodValue, checkIn.moodLabel)
                    \o OrderSanityErrors)

validateVibeCheckIn(checkIn) ==
  ResultOf(RangeErrors(checkIn.moodValue)
           \o HomomorphismErrors(checkIn.moodValue, checkIn.moodLabel)
           \o OrderSanityErrors)

(***************************************************************************)
(* The dashboard's validateCheckIn (first failure wins)                     *)
(***************************************************************************)
VIBE_SCALE ==
  << [label |-> "Terrible", value |-> Whole(1)],
     [label |-> "Down",     value |-> Whole(2)],
     [label |-> "Neutral",  value |-> Whole(3)],
     [label |-> "Good",     value |-> Whole(4)],
     [label |-> "Great",    value |-> Whole(5)] >>

\* VIBE_SCALE.find(v => v.label === moodLabel)
FindVibe(moodLabel) ==
  LET hits == {i \in DOMAIN VIBE_SCALE : VIBE_SCALE[i].label = moodLabel}
  IN  IF hits = {} THEN NotFound
      ELSE VIBE_SCALE[CHOOSE i \in hits : \A j \in hits : i <= j]

NoError == [kind |-> "none"]

validateCheckInMutantRangeFirst(checkIn) ==
  LET canonical == FindVibe(checkIn.moodLabel)
  IN  IF ~Truthy(canonical)
        THEN [valid |-> FALSE, error |-> UnknownLabelError(checkIn.moodLabel)]
      ELSE IF LessThan(checkIn.moodValue, 1) \/ GreaterThan(checkIn.moodValue, 5)
        THEN [valid |-> FALSE, error |-> OrdinalRangeError(checkIn.moodValue)]
      ELSE IF canonical.value # checkIn.moodValue
        THEN [valid |-> FALSE,
              error |-> HomomorphismError(checkIn.moodLabel, canonical.value,
                                          checkIn.moodValue)]
      ELSE [valid |-> TRUE, error |-> NoError]

validateCheckIn(checkIn) ==
  LET canonical == FindVibe(checkIn.moodLabel)
  IN  IF ~Truthy(canonical)
        THEN [valid |-> FALSE, error |-> UnknownLabelError(checkIn.moodLabel)]
      ELSE IF canonical.value # checkIn.moodValue
        THEN [valid |-> FALSE,
              error |-> HomomorphismError(checkIn.moodLabel, canonical.value,
                                          checkIn.moodValue)]
      ELSE IF LessThan(checkIn.moodValue, 1) \/ GreaterThan(checkIn.moodValue, 5)
        THEN [valid |-> FALSE, error |-> OrdinalRangeError(checkIn.moodValue)]
      ELSE [valid |-> TRUE, error |-> NoError]

(***************************************************************************)
(* validateVibeTimestamps: checkIns is a sequence of instants (getTime())   *)
(***************************************************************************)
DuplicateTimestampError(i, instant) ==
  [kind |-> "DuplicateTimestamp", index |-> i, instant |-> instant]

\* The loop runs i = 1 .. length-1 over 0-based indices; Sequences are 1-based,
\* so JavaScript's checkIns[i] is checkIns[i + 1] here.
RECURSIVE TimestampErrorsFromMutantAnyEarlier(_, _)
TimestampErrorsFromMutantAnyEarlier(checkIns, i) ==
  IF i >= Len(checkIns) THEN << >>
  ELSE (IF \E j \in 1 .. i : checkIns[j] = checkIns[i + 1]
          THEN << DuplicateTimestampError(i, checkIns[i + 1]) >> ELSE << >>)
       \o TimestampErrorsFromMutantAnyEarlier(checkIns, i + 1)

RECURSIVE TimestampErrorsFrom(_, _)
TimestampErrorsFrom(checkIns, i) ==
  IF i >= Len(checkIns) THEN << >>
  ELSE (IF checkIns[i + 1] = checkIns[i]
          THEN << DuplicateTimestampError(i, checkIns[i + 1]) >> ELSE << >>)
       \o TimestampErrorsFrom(checkIns, i + 1)

\* An element without recordedAt: checkIns[i].recordedAt is undefined, and
\* undefined.getTime() raises a TypeError out of the function.
MissingRecordedAt == -1

TypeErrorRaised == [raised |-> "TypeError"]

\* both operands of the comparison at loop index i are evaluated
RaisesAt(checkIns, i) ==
  checkIns[i + 1] = MissingRecordedAt \/ checkIns[i] = MissingRecordedAt

validateVibeTimestampsMutantSkipFirstPair(checkIns) ==
  IF \E i \in 1 .. Len(checkIns) - 1 : RaisesAt(checkIns, i)
    THEN TypeErrorRaised
    ELSE ResultOf(TimestampErrorsFrom(checkIns, 2))

validateVibeTimestamps(checkIns) ==
  IF \E i \in 1 .. Len(checkIns) - 1 : RaisesAt(checkIns, i)
    THEN TypeErrorRaised
    ELSE ResultOf(TimestampErrorsFrom(checkIns, 1))

(***************************************************************************)
(* 2. validateStreak                                                        *)
(***************************************************************************)
NonNegativeIntegerError(name, val) ==
  [kind |-> "NonNegativeInteger", field |-> name, value |-> val]

\* for (const [name, val] of Object.entries(fields)), in field order
RECURSIVE FieldErrors(_, _)
FieldErrors(record, names) ==
  IF names = << >> THEN << >>
  ELSE LET name == Head(names)
           val  == record[name]
       IN  (IF ~IsInteger(val) \/ LessThan(val, 0)
              THEN << NonNegativeIntegerError(name, val) >> ELSE << >>)
           \o FieldErrors(record, Tail(names))

LongestBelowCurrentError(longest, current) ==
  [kind |-> "LongestBelowCurrent", longest |-> longest, current |-> current]

TotalBelowCurrentError(total, current) ==
  [kind |-> "TotalBelowCurrent", total |-> total, current |-> current]

validateStreakMutantNoTotalCheck(streak) ==
  ResultOf(
    FieldErrors(streak, << "currentStreak", "longestStreak", "totalActiveDays" >>)
    \o (IF Less(streak.longestStreak, streak.currentStreak)
          THEN << LongestBelowCurrentError(streak.longestStreak, streak.currentStreak) >>
          ELSE << >>))

validateStreak(streak) ==
  ResultOf(
    FieldErrors(streak, << "currentStreak", "longestStreak", "totalActiveDays" >>)
    \o (IF Less(streak.longestStreak, streak.currentStreak)
          THEN << LongestBelowCurrentError(streak.longestStreak, streak.currentStreak) >>
          ELSE << >>)
    \o (IF Less(streak.totalActiveDays, streak.currentStreak)
          THEN << TotalBelowCurrentError(streak.totalActiveDays, streak.currentStreak) >>
          ELSE << >>))

(***************************************************************************)
(* 3. validateSupportCategory                                               *)
(***************************************************************************)
SUPPORT_CATEGORIES ==
  {"Anxiety", "Depression", "Stress", "Burnout",
   "Study Tips", "Relationships", "General Wellness"}

UnknownCategoryError(category) ==
  [kind |-> "UnknownCategory", category |-> category,
   validClasses |-> SUPPORT_CATEGORIES]

validateSupportCategoryMutantAcceptsEmpty(category) ==
  ResultOf(IF category # "" /\ category \notin SUPPORT_CATEGORIES
             THEN << UnknownCategoryError(category) >> ELSE << >>)

validateSupportCategory(category) ==
  ResultOf(IF category \notin SUPPORT_CATEGORIES
             THEN << UnknownCategoryError(category) >> ELSE << >>)

(***************************************************************************)
(* 4. validateHealthScore                                                   *)
(***************************************************************************)
\* the object literal tierBounds
tierBoundsMutantOverlap ==
  [Low       |-> << 0, 25 >>,
   Moderate  |-> << 25, 50 >>,
   High      |-> << 51, 75 >>,
   Excellent |-> << 76, 100 >>]

tierBounds ==
  [Low       |-> << 0, 25 >>,
   Moderate  |-> << 26, 50 >>,
   High      |-> << 51, 75 >>,
   Excellent |-> << 76, 100 >>]

IntervalError(healthScore) == [kind |-> "IntervalBounds", value |-> healthScore]

UnknownTierError(tier) == [kind |-> "UnknownTier", tier |-> tier]

TierMismatchError(tier, lo, hi, healthScore) ==
  [kind |-> "TierScoreMismatch", tier |-> tier, lo |-> lo, hi |-> hi,
   value |-> healthScore]

AverageVibeError(averageVibeScore) ==
  [kind |-> "AverageVibeBounds", value |-> averageVibeScore]

\* (b) const bounds = tierBounds[engagementTier]: an own key gives the pair, a
\* key inherited from Object.prototype gives a function (truthy, its [0] and
\* [1] undefined, so both comparisons are false), any other key undefined.
TierErrors(healthScore, engagementTier) ==
  IF engagementTier \in DOMAIN tierBounds
    THEN LET bounds == tierBounds[engagementTier]
         IN  IF LessThan(healthScore, bounds[1]) \/ GreaterThan(healthScore, bounds[2])
               THEN << TierMismatchError(engagementTier, bounds[1], bounds[2],
                                         healthScore) >>
               ELSE << >>
    ELSE IF engagementTier \in ObjectPrototypeKeys
      THEN << >>
      ELSE << UnknownTierError(engagementTier) >>

validateHealthScoreMutantSharedErrors(record) ==
  ResultOf(
    (IF prev # NoPrev /\ prev.fn = "validateHealthScore"
       THEN prev.res.errors ELSE << >>)
    \o (IF ~IsNumber(record.healthScore) \/ LessThan(record.healthScore, 0)
           \/ GreaterThan(record.healthScore, 100)
          THEN << IntervalError(record.healthScore) >> ELSE << >>)
    \o TierErrors(record.healthScore, record.engagementTier)
    \o FieldErrors(record, << "streakDays", "vibeCheckIns", "loginCount" >>)
    \o (IF ~IsNumber(record.averageVibeScore) \/ LessThan(record.averageVibeScore, 1)
           \/ GreaterThan(record.averageVibeScore, 5)
          THEN << AverageVibeError(record.averageVibeScore) >> ELSE << >>))

validateHealthScore(record) ==
  ResultOf(
    (IF ~IsNumber(record.healthScore) \/ LessThan(record.healthScore, 0)
        \/ GreaterThan(record.healthScore, 100)
       THEN << IntervalError(record.healthScore) >> ELSE << >>)
    \o TierErrors(record.healthScore, record.engagementTier)
    \o FieldErrors(record, << "streakDays", "vibeCheckIns", "loginCount" >>)
    \o (IF ~IsNumber(record.averageVibeScore) \/ LessThan(record.averageVibeScore, 1)
           \/ GreaterThan(record.averageVibeScore, 5)
          THEN << AverageVibeError(record.averageVibeScore) >> ELSE << >>))

(***************************************************************************)
(* validateFullSnapshot: a part the snapshot lacks is replaced by {} (or by *)
(* '' for the category), whose fields all read as undefined                 *)
(***************************************************************************)
EmptyCheckIn == [moodValue |-> Undefined, moodLabel |-> "undefined"]

EmptyStreak ==
  [currentStreak |-> Undefined, longestStreak |-> Undefined,
   totalActiveDays |-> Undefined]

EmptyHealthScore ==
  [healthScore |-> Undefined, engagementTier |-> "undefined",
   streakDays |-> Undefined, vibeCheckIns |-> Undefined,
   averageVibeScore |-> Undefined, loginCount |-> Undefined]

\* snapshot.part || empty
PartOr(snapshot, part, empty) ==
  IF part \in DOMAIN snapshot THEN snapshot[part] ELSE empty

validateFullSnapshotMutantAnyValid(snapshot) ==
  LET results ==
        [vibeCheckIn |-> validateVibeCheckIn(PartOr(snapshot, "latestCheckIn", EmptyCheckIn)),
         streak      |-> validateStreak(PartOr(snapshot, "streak", EmptyStreak)),
         category    |-> validateSupportCategory(PartOr(snapshot, "category", "")),
         healthScore |-> validateHealthScore(PartOr(snapshot, "healthScore", EmptyHealthScore))]
  IN  [allValid |-> \E k \in DOMAIN results : results[k].valid,
       results  |-> results]

validateFullSnapshot(snapshot) ==
  LET results ==
        [vibeCheckIn |-> validateVibeCheckIn(PartOr(snapshot, "latestCheckIn", EmptyCheckIn)),
         streak      |-> validateStreak(PartOr(snapshot, "streak", EmptyStreak)),
         category    |-> validateSupportCategory(PartOr(snapshot, "category", "")),
         healthScore |-> validateHealthScore(PartOr(snapshot, "healthScore", EmptyHealthScore))]
  IN  [allValid |-> \A k \in DOMAIN results : results[k].valid,
       results  |-> results]

(***************************************************************************)
(* 5. computeHealthScore                                                    *)
(*                                                                          *)
(* The arithmetic is exact: a quantity is a fraction << n, d >>, d > 0, and *)
(* toFixed(2) rounds it to the nearest hundredth, a tie going away from     *)
(* zero.  In the code the operands are binary doubles, whose representation *)
(* error (about 1e-14) changes the rounded result only when the exact value *)
(* is a tie (x.xx5); the averageVibeScore values drawn below are multiples  *)
(* of 0.2, for which the weighted sum is never a tie.                       *)
(***************************************************************************)
RECURSIVE GCD(_, _)
GCD(a, b) == IF b = 0 THEN a ELSE GCD(b, a % b)

LCM(a, b) == (a * b) \div GCD(a, b)

Abs(n) == IF n < 0 THEN -n ELSE n

\* +x.toFixed(2) for x = (n/d) / 100: n/d rounded to the nearest integer
ToFixed2(n, d) ==
  LET q == (2 * Abs(n) + d) \div (2 * d)
  IN  IF n < 0 THEN -q ELSE q

DefaultMaxValues == [streakDays |-> 30, vibeCheckIns |-> 30, loginCount |-> 60]

MaxValuesOfMutantSticky(params) ==
  IF "maxValues" \in DOMAIN params THEN params.maxValues
  ELSE IF prev # NoPrev /\ prev.fn = "computeHealthScore"
          /\ "maxValues" \in DOMAIN prev.arg
    THEN prev.arg.maxValues
    ELSE DefaultMaxValues

MaxValuesOf(params) ==
  IF "maxValues" \in DOMAIN params THEN params.maxValues ELSE DefaultMaxValues

\* Math.min(count / max, 1) * 100 as a fraction; count is a number value
NormCountMutantNoCeiling(count, max) == << count.hundredths, max >>

NormCountMutantLateSaturation(count, max) ==
  IF count.hundredths >= 2 * max * Hundredths
    THEN << 100, 1 >>
    ELSE << count.hundredths, max >>

NormCount(count, max) ==
  IF count.hundredths >= max * Hundredths
    THEN << 100, 1 >>
    ELSE << count.hundredths, max >>

\* ((averageVibeScore - 1) / 4) * 100 as a fraction
NormVibeMutantInverted(averageVibeScore) ==
  << 5 * Hundredths - averageVibeScore.hundredths, 4 >>

NormVibe(averageVibeScore) == << averageVibeScore.hundredths - Hundredths, 4 >>

\* normStreak * 0.40 + normVibe * 0.35 + normLogins * 0.15 + normCheckins * 0.10,
\* as a fraction of hundredths (the weights are 40, 35, 15, 10 hundredths)
WeightedSumMutantSwappedWeights(normStreak, normVibe, normLogins, normCheckins) ==
  LET d == LCM(LCM(normStreak[2], normVibe[2]), LCM(normLogins[2], normCheckins[2]))
  IN  << 40 * normStreak[1]   * (d \div normStreak[2])
         + 35 * normVibe[1]     * (d \div normVibe[2])
         + 10 * normLogins[1]   * (d \div normLogins[2])
         + 15 * normCheckins[1] * (d \div normCheckins[2]),
         d >>

WeightedSumMutantWeightsBelowOne(normStreak, normVibe, normLogins, normCheckins) ==
  LET d == LCM(LCM(normStreak[2], normVibe[2]), LCM(normLogins[2], normCheckins[2]))
  IN  << 40 * normStreak[1]   * (d \div normStreak[2])
         + 35 * normVibe[1]     * (d \div normVibe[2])
         + 15 * normLogins[1]   * (d \div normLogins[2])
         + 5 * normCheckins[1]  * (d \div normCheckins[2]),
         d >>

WeightedSum(normStreak, normVibe, normLogins, normCheckins) ==
  LET d == LCM(LCM(normStreak[2], normVibe[2]), LCM(normLogins[2], normCheckins[2]))
  IN  << 40 * normStreak[1]   * (d \div normStreak[2])
         + 35 * normVibe[1]     * (d \div normVibe[2])
         + 15 * normLogins[1]   * (d \div normLogins[2])
         + 10 * normCheckins[1] * (d \div normCheckins[2]),
         d >>

\* the threshold chain deriving the tier from the rounded score
TierOfScore(healthScore) ==
  IF healthScore.hundredths >= 76 * Hundredths THEN "Excellent"
  ELSE IF healthScore.hundredths >= 51 * Hundredths THEN "High"
  ELSE IF healthScore.hundredths >= 26 * Hundredths THEN "Moderate"
  ELSE "Low"

computeHealthScore(params) ==
  LET maxValues    == MaxValuesOf(params)
      normStreak   == NormCount(params.streakDays, maxValues.streakDays)
      normCheckins == NormCount(params.vibeCheckIns, maxValues.vibeCheckIns)
      normVibe     == NormVibe(params.averageVibeScore)
      normLogins   == NormCount(params.loginCount, maxValues.loginCount)
      sum          == WeightedSum(normStreak, normVibe, normLogins, normCheckins)
      healthScore  == Num(ToFixed2(sum[1], sum[2]))
  IN  [healthScore    |-> healthScore,
       engagementTier |-> TierOfScore(healthScore),
       breakdown |->
         [normStreak   |-> Num(ToFixed2(Hundredths * normStreak[1], normStreak[2])),
          normVibe     |-> Num(ToFixed2(Hundredths * normVibe[1], normVibe[2])),
          normLogins   |-> Num(ToFixed2(Hundredths * normLogins[1], normLogins[2])),
          normCheckins |-> Num(ToFixed2(Hundredths * normCheckins[1], normCheckins[2]))]]

(***************************************************************************)
(* The dashboard's tier table                                               *)
(***************************************************************************)
ENGAGEMENT_TIERS ==
  << [label |-> "Low",       min |-> 0,  max |-> 25,  color |-> "#ff6b8a"],
     [label |-> "Moderate",  min |-> 26, max |-> 50,  color |-> "#ffd166"],
     [label |-> "High",      min |-> 51, max |-> 75,  color |-> "#a8d8a8"],
     [label |-> "Excellent", min |-> 76, max |-> 100, color |-> "#5ec4b1"] >>

\* the labels of the entries t with score >= t.min && score <= t.max
TiersContaining(score) ==
  {ENGAGEMENT_TIERS[i].label : i \in
     {j \in DOMAIN ENGAGEMENT_TIERS :
        /\ ~LessThan(score, ENGAGEMENT_TIERS[j].min)
        /\ ~GreaterThan(score, ENGAGEMENT_TIERS[j].max)}}

\* ENGAGEMENT_TIERS.find(t => score >= t.min && score <= t.max) || ENGAGEMENT_TIERS[0]
FindTier(score) ==
  LET hits == {j \in DOMAIN ENGAGEMENT_TIERS :
                 /\ ~LessThan(score, ENGAGEMENT_TIERS[j].min)
                 /\ ~GreaterThan(score, ENGAGEMENT_TIERS[j].max)}
  IN  IF hits = {} THEN ENGAGEMENT_TIERS[1]
      ELSE ENGAGEMENT_TIERS[CHOOSE i \in hits : \A j \in hits : i <= j]

\* +x.toFixed(1) for x = (n/d) / 100, in hundredths: n/d rounded to the
\* nearest multiple of ten
ToFixed1(n, d) == 10 * ToFixed2(n, 10 * d)

\* the dashboard's computeHealthScore: fixed ceilings 30 / 60 / 30, one
\* decimal, tier looked up in ENGAGEMENT_TIERS
computeHealthScoreDashboard(params) ==
  LET normStreak   == NormCount(params.streakDays, 30)
      normVibe     == NormVibe(params.avgVibeScore)
      normLogins   == NormCount(params.loginCount, 60)
      normCheckins == NormCount(params.vibeCheckIns, 30)
      sum          == WeightedSum(normStreak, normVibe, normLogins, normCheckins)
      score        == Num(ToFixed1(sum[1], sum[2]))
      tier         == FindTier(score)
  IN  [score |-> score, tier |-> tier.label, tierColor |-> tier.color]

\* the keys of tierBounds whose pair raises no mismatch for the score
BoundsContaining(score) ==
  {t \in DOMAIN tierBounds : TierErrors(score, t) = << >>}

(***************************************************************************)
(* Inputs                                                                   *)
(***************************************************************************)
MaxMoodValue == 7

MaxStreakValue == 3

MaxInstant == 2

MaxSeqLen == 4

MaxStreak == 31

MaxCheckInSteps == 7

MaxLoginSteps == 13

MoodValues ==
  {Whole(n) : n \in -1 .. MaxMoodValue} \cup {Num(250), Undefined}

MoodLabels ==
  VibeLabels \cup {"Happy", "great", "", "undefined", "constructor", "toString"}

CheckIns == [moodValue : MoodValues, moodLabel : MoodLabels]

\* the day counts of the streak cases of runTests
StreakExamples == {5, 7, 10, 14, 15, 20}

StreakValues ==
  {Whole(n) : n \in (-1 .. MaxStreakValue) \cup StreakExamples}
  \cup {Num(150), Undefined}

Streaks ==
  [currentStreak : StreakValues, longestStreak : StreakValues,
   totalActiveDays : StreakValues]

RECURSIVE SeqsUpTo(_, _)
SeqsUpTo(S, n) ==
  IF n = 0 THEN {<< >>}
  ELSE LET shorter == SeqsUpTo(S, n - 1)
       IN  shorter \cup {Append(q, x) : q \in {r \in shorter : Len(r) = n - 1}, x \in S}

TimestampSeqs == SeqsUpTo(0 .. MaxInstant, MaxSeqLen)

Categories == SUPPORT_CATEGORIES \cup {"", "Existential Dread", "anxiety"}

TierLabels ==
  DOMAIN tierBounds \cup {"Unknown", "undefined", "constructor"}

HealthScoreValues ==
  {Whole(n) : n \in -1 .. 101} \cup {Num(2550), Num(7250), Undefined}

HealthRecords ==
  [streakDays       : {Whole(7), Whole(-1), Num(750), Undefined},
   vibeCheckIns     : {Whole(15), Whole(-1)},
   averageVibeScore : {Num(50), Num(100), Num(420), Num(500), Num(501), Undefined},
   loginCount       : {Whole(20), Num(250)},
   healthScore      : HealthScoreValues,
   engagementTier   : TierLabels]

\* averageVibeScore 1.0, 1.2, ..., 5.0
VibeScores == {Num(Hundredths + 20 * k) : k \in 0 .. 20}

\* a count far above every ceiling
BigCount == 1000

HealthInputDomains ==
  [streakDays       |-> {Whole(n) : n \in 0 .. MaxStreak} \cup {Whole(BigCount)},
   vibeCheckIns     |-> {Whole(5 * k) : k \in 0 .. MaxCheckInSteps} \cup {Whole(BigCount)},
   averageVibeScore |-> VibeScores,
   loginCount       |-> {Whole(5 * k) : k \in 0 .. MaxLoginSteps} \cup {Whole(BigCount)}]

HealthInputs ==
  [streakDays       : HealthInputDomains.streakDays,
   vibeCheckIns     : HealthInputDomains.vibeCheckIns,
   averageVibeScore : HealthInputDomains.averageVibeScore,
   loginCount       : HealthInputDomains.loginCount]

\* averageVibeScore -1.0, -0.6, ..., 7.0: the calculators do not clamp it.
\* With these values, loginCount a multiple of 10 and vibeCheckIns a multiple
\* of 5 the weighted sum is never a tie of toFixed(1) either.
UnclampedVibeScores == {Num(Hundredths + 40 * k) : k \in -5 .. 15}

MaxLoginTens == 7

UnclampedInputDomains ==
  [streakDays   |-> HealthInputDomains.streakDays,
   vibeCheckIns |-> HealthInputDomains.vibeCheckIns,
   vibe         |-> UnclampedVibeScores,
   loginCount   |-> {Whole(10 * k) : k \in 0 .. MaxLoginTens} \cup {Whole(BigCount)}]

UnclampedInputs ==
  [streakDays       : UnclampedInputDomains.streakDays,
   vibeCheckIns     : UnclampedInputDomains.vibeCheckIns,
   averageVibeScore : UnclampedInputDomains.vibe,
   loginCount       : UnclampedInputDomains.loginCount]

UnclampedDashboardInputs ==
  [streakDays   : UnclampedInputDomains.streakDays,
   vibeCheckIns : UnclampedInputDomains.vibeCheckIns,
   avgVibeScore : UnclampedInputDomains.vibe,
   loginCount   : UnclampedInputDomains.loginCount]

(***************************************************************************)
(* The validators, each applied to an input                                 *)
(***************************************************************************)
\* The module-level objects: they are created once, are not frozen, and are
\* what every call reads.  No function of the module assigns to them or to
\* one of their members, so every action leaves registry unchanged.
Registry ==
  [VIBE_ORDER         |-> VIBE_ORDER,
   VIBE_BY_LABEL      |-> [l \in VibeLabels |-> VIBE_BY_LABEL(l)],
   VIBE_BY_VALUE      |-> [k \in {PropertyKey(VIBE_ORDER[i].value) : i \in DOMAIN VIBE_ORDER}
                             |-> VIBE_BY_VALUE(VIBE_ORDER[CHOOSE i \in DOMAIN VIBE_ORDER :
                                              PropertyKey(VIBE_ORDER[i].value) = k].value)],
   ENGAGEMENT_ORDER   |-> ENGAGEMENT_ORDER,
   ENGAGEMENT_RANK    |-> ENGAGEMENT_RANK,
   SUPPORT_CATEGORIES |-> SUPPORT_CATEGORIES]

Call(fn, arg) == [fn |-> fn, arg |-> arg]

Init ==
  /\ res = Pending
  /\ prev = NoPrev
  /\ registry = Registry
  /\ app = Unmounted
  /\ \/ \E c \in CheckIns : call = Call("validateVibeCheckIn", c)
     \/ \E c \in CheckIns : call = Call("validateCheckIn", c)
     \/ \E q \in TimestampSeqs : call = Call("validateVibeTimestamps", [checkIns |-> q])
     \/ \E k \in Streaks : call = Call("validateStreak", k)
     \/ \E c \in Categories : call = Call("validateSupportCategory", [category |-> c])
     \/ \E r \in HealthRecords : call = Call("validateHealthScore", r)

ValidateVibeCheckIn ==
  /\ res = Pending
  /\ call.fn = "validateVibeCheckIn"
  /\ res' = validateVibeCheckIn(call.arg)
  /\ UNCHANGED << call, prev, registry, app >>

ValidateCheckIn ==
  /\ res = Pending
  /\ call.fn = "validateCheckIn"
  /\ res' = validateCheckIn(call.arg)
  /\ UNCHANGED << call, prev, registry, app >>

ValidateVibeTimestamps ==
  /\ res = Pending
  /\ call.fn = "validateVibeTimestamps"
  /\ res' = validateVibeTimestamps(call.arg.checkIns)
  /\ UNCHANGED << call, prev, registry, app >>

ValidateStreak ==
  /\ res = Pending
  /\ call.fn = "validateStreak"
  /\ res' = validateStreak(call.arg)
  /\ UNCHANGED << call, prev, registry, app >>

ValidateSupportCategory ==
  /\ res = Pending
  /\ call.fn = "validateSupportCategory"
  /\ res' = validateSupportCategory(call.arg.category)
  /\ UNCHANGED << call, prev, registry, app >>

ValidateHealthScore ==
  /\ res = Pending
  /\ call.fn = "validateHealthScore"
  /\ res' = validateHealthScore(call.arg)
  /\ UNCHANGED << call, prev, registry, app >>

Next ==
  \/ ValidateVibeCheckIn
  \/ ValidateCheckIn
  \/ ValidateVibeTimestamps
  \/ ValidateStreak
  \/ ValidateSupportCategory
  \/ ValidateHealthScore

Spec == Init /\ [][Next]_vars

(***************************************************************************)
(* The calculator: computeHealthScore applied to an input, applied again    *)
(* with one input raised (prev keeps the earlier call and its result), and  *)
(* its result handed to validateHealthScore                                 *)
(***************************************************************************)
InitHealth ==
  /\ res = Pending
  /\ prev = NoPrev
  /\ registry = Registry
  /\ app = Unmounted
  /\ \E p \in HealthInputs : call = Call("computeHealthScore", p)

ComputeHealthScore ==
  /\ res = Pending
  /\ call.fn = "computeHealthScore"
  /\ res' = computeHealthScore(call.arg)
  /\ UNCHANGED << call, prev, registry, app >>

\* the inputs with one field replaced by the next larger value drawn for it
Raised(params) ==
  {[params EXCEPT ![k] = v] : <<k, v>> \in
     {<<k, v>> \in UNION {{k} \X HealthInputDomains[k] : k \in DOMAIN params} :
        /\ Less(params[k], v)
        /\ \A w \in HealthInputDomains[k] : ~(Less(params[k], w) /\ Less(w, v))}}

ComputeRaised ==
  /\ call.fn = "computeHealthScore"
  /\ res # Pending
  /\ prev = NoPrev
  /\ \E p \in Raised(call.arg) :
       /\ call' = Call("computeHealthScore", p)
       /\ res' = computeHealthScore(p)
  /\ prev' = [fn |-> call.fn, arg |-> call.arg, res |-> res]
  /\ UNCHANGED << registry, app >>

\* the record made of the inputs and the computed score and tier
RecordOf(params, computed) ==
  [streakDays       |-> params.streakDays,
   vibeCheckIns     |-> params.vibeCheckIns,
   averageVibeScore |-> params.averageVibeScore,
   loginCount       |-> params.loginCount,
   healthScore      |-> computed.healthScore,
   engagementTier   |-> computed.engagementTier]

ValidateComputed ==
  /\ call.fn = "computeHealthScore"
  /\ res # Pending
  /\ prev = NoPrev
  /\ call' = Call("validateHealthScore", RecordOf(call.arg, res))
  /\ res' = validateHealthScore(RecordOf(call.arg, res))
  /\ UNCHANGED << prev, registry, app >>

NextHealth ==
  \/ ComputeHealthScore
  \/ ComputeRaised
  \/ ValidateComputed

SpecHealth == InitHealth /\ [][NextHealth]_vars

(***************************************************************************)
(* The two calculators on inputs whose averageVibeScore may lie outside     *)
(* [1,5]                                                                    *)
(***************************************************************************)
InitTier ==
  /\ res = Pending
  /\ prev = NoPrev
  /\ registry = Registry
  /\ app = Unmounted
  /\ \/ \E p \in UnclampedInputs : call = Call("computeHealthScore", p)
     \/ \E p \in UnclampedDashboardInputs :
          call = Call("computeHealthScoreDashboard", p)

ComputeHealthScoreDashboard ==
  /\ res = Pending
  /\ call.fn = "computeHealthScoreDashboard"
  /\ res' = computeHealthScoreDashboard(call.arg)
  /\ UNCHANGED << call, prev, registry, app >>

NextTier ==
  \/ ComputeHealthScore
  \/ ComputeHealthScoreDashboard

SpecTier == InitTier /\ [][NextTier]_vars

(***************************************************************************)
(* validateFullSnapshot on snapshots that have or lack each of their four   *)
(* parts, and validateVibeTimestamps on elements with or without recordedAt *)
(***************************************************************************)
\* a part that is present with each of the values of S, or absent
Optional(part, S) == {part :> v : v \in S} \cup {<< >>}

SnapshotCheckIns ==
  [moodValue : {Whole(1), Whole(5)}, moodLabel : {"Terrible", "Great"}]

SnapshotStreaks ==
  [currentStreak : {Whole(7), Whole(10)}, longestStreak : {Whole(5), Whole(14)},
   totalActiveDays : {Whole(20)}]

SnapshotCategories == {"Anxiety", "Study Tips", "", "Existential Dread"}

SnapshotHealthScores ==
  [streakDays : {Whole(7)}, vibeCheckIns : {Whole(15)},
   averageVibeScore : {Num(420)}, loginCount : {Whole(20)},
   healthScore : {Whole(15), Num(7250)}, engagementTier : {"High", "Excellent"}]

Snapshots ==
  {c @@ k @@ g @@ h :
     c \in Optional("latestCheckIn", SnapshotCheckIns),
     k \in Optional("streak", SnapshotStreaks),
     g \in Optional("category", SnapshotCategories),
     h \in Optional("healthScore", SnapshotHealthScores)}

RecordedAtSeqs == SeqsUpTo((0 .. MaxInstant) \cup {MissingRecordedAt}, MaxSeqLen)

InitSnapshot ==
  /\ res = Pending
  /\ prev = NoPrev
  /\ registry = Registry
  /\ app = Unmounted
  /\ \/ \E snapshot \in Snapshots : call = Call("validateFullSnapshot", snapshot)
     \/ \E q \in RecordedAtSeqs : call = Call("validateVibeTimestamps", [checkIns |-> q])

ValidateFullSnapshot ==
  /\ res = Pending
  /\ call.fn = "validateFullSnapshot"
  /\ res' = validateFullSnapshot(call.arg)
  /\ UNCHANGED << call, prev, registry, app >>

NextSnapshot ==
  \/ ValidateFullSnapshot
  \/ ValidateVibeTimestamps

SpecSnapshot == InitSnapshot /\ [][NextSnapshot]_vars

(***************************************************************************)
(* A session: calls made one after another on the same module, prev keeping *)
(* one of the earlier calls with its result                                 *)
(***************************************************************************)
SessionMaxValues ==
  {[streakDays |-> 10, vibeCheckIns |-> 20, loginCount |-> 30],
   [streakDays |-> 60, vibeCheckIns |-> 60, loginCount |-> 120]}

SessionHealthInputs ==
  [streakDays : {Whole(0), Whole(10), Whole(30), Whole(45)},
   vibeCheckIns : {Whole(20), Whole(40)},
   averageVibeScore : {Num(100), Num(380)},
   loginCount : {Whole(30), Whole(90)}]

SessionCalls ==
  {Call("computeHealthScore", p) : p \in SessionHealthInputs}
  \cup {Call("computeHealthScore", p @@ ("maxValues" :> m)) :
          p \in SessionHealthInputs, m \in SessionMaxValues}
  \cup {Call("validateVibeCheckIn", c) : c \in SnapshotCheckIns}
  \cup {Call("validateVibeTimestamps", [checkIns |-> q]) : q \in SeqsUpTo(0 .. 1, 2)}
  \cup {Call("validateStreak", k) : k \in SnapshotStreaks}
  \cup {Call("validateSupportCategory", [category |-> c]) : c \in SnapshotCategories}
  \cup {Call("validateHealthScore", r) : r \in SnapshotHealthScores}

InitSession ==
  /\ res = Pending
  /\ prev = NoPrev
  /\ registry = Registry
  /\ app = Unmounted
  /\ call \in SessionCalls

\* the caller makes its next call; prev keeps the completed call or stays
NextCall ==
  /\ res # Pending
  /\ call' \in SessionCalls
  /\ res' = Pending
  /\ prev' \in {prev, [fn |-> call.fn, arg |-> call.arg, res |-> res]}
  /\ UNCHANGED << registry, app >>

NextSession ==
  \/ ValidateVibeCheckIn
  \/ ValidateVibeTimestamps
  \/ ValidateStreak
  \/ ValidateSupportCategory
  \/ ValidateHealthScore
  \/ ComputeHealthScore
  \/ NextCall

SpecSession == InitSession /\ [][NextSession]_vars

(***************************************************************************)
(* The two lookup maps of the registry: an entry is looked up by label or   *)
(* by value, and the entry found is looked up back through the other map    *)
(***************************************************************************)
InitRegistry ==
  /\ res = Pending
  /\ prev = NoPrev
  /\ registry = Registry
  /\ app = Unmounted
  /\ \E c \in CheckIns : call = Call("lookup", c)

LookupByLabel ==
  /\ res = Pending
  /\ call.fn = "lookup"
  /\ res' = [by |-> "label", entry |-> VIBE_BY_LABEL(call.arg.moodLabel)]
  /\ UNCHANGED << call, prev, registry, app >>

LookupByValue ==
  /\ res = Pending
  /\ call.fn = "lookup"
  /\ res' = [by |-> "value", entry |-> VIBE_BY_VALUE(call.arg.moodValue)]
  /\ UNCHANGED << call, prev, registry, app >>

\* VIBE_BY_VALUE[entry.value] resp. VIBE_BY_LABEL[entry.label] of a found entry
LookupBack ==
  /\ res # Pending
  /\ call.fn = "lookup"
  /\ "back" \notin DOMAIN res
  /\ Truthy(res.entry)
  /\ res' = [by    |-> res.by,
             entry |-> res.entry,
             back  |-> IF res.by = "label"
                         THEN VIBE_BY_VALUE(res.entry.value)
                         ELSE VIBE_BY_LABEL(res.entry.label)]
  /\ UNCHANGED << call, prev, registry, app >>

NextRegistry ==
  \/ LookupByLabel
  \/ LookupByValue
  \/ LookupBack

SpecRegistry == InitRegistry /\ [][NextRegistry]_vars

(***************************************************************************)
(* The dashboard component App: its hooks (tab, state, mood, valMsg, toast, *)
(* post) and the pending setTimeout callbacks.  Every handler runs to       *)
(* completion and the component re-renders before the next event, so a      *)
(* handler is one step.  toasts counts the toast$ calls; a toast and the    *)
(* timer started by the same call carry that call's number.                 *)
(***************************************************************************)
INITIAL_STATE ==
  [streak            |-> [currentStreak |-> 7, longestStreak |-> 14,
                          totalActiveDays |-> 28],
   logins            |-> 23,
   journalsCompleted |-> 18,
   resourceViews     |-> [Anxiety |-> 12, Burnout |-> 8, Stress |-> 15],
   checkInHistory    |-> << Whole(4), Whole(3), Whole(5), Whole(2), Whole(4),
                            Whole(5), Whole(3) >>,
   forumPosts        |-> << [category |-> "Anxiety", flagged |-> FALSE,
                             preview |-> "Feeling overwhelmed with finals..."],
                            [category |-> "Study Tips", flagged |-> FALSE,
                             preview |-> "Pomodoro technique changed my life!"],
                            [category |-> "Burnout", flagged |-> FALSE,
                             preview |-> "Can't stop doom-scrolling at 2am"] >>]

\* useState(null)
NoMood == [label |-> "[null]", value |-> Undefined]

NoValMsg == [valid |-> FALSE, error |-> [kind |-> "null"]]

NoToast == [msg |-> [text |-> "[null]"], ok |-> FALSE, id |-> 0]

EmptyPost == [category |-> "Anxiety", content |-> ""]

TABS == << "dashboard", "vibe", "forum", "scores" >>

InitialApp ==
  [tab |-> "dashboard", state |-> INITIAL_STATE, mood |-> NoMood,
   valMsg |-> NoValMsg, toast |-> NoToast, post |-> EmptyPost,
   timers |-> << >>, toasts |-> 0]

\* toast$(msg, ok): setToast({msg, ok}) and setTimeout(() => setToast(null), 3500)
ShowToast(a, msg, ok) ==
  [a EXCEPT !.toast  = [msg |-> msg, ok |-> ok, id |-> a.toasts + 1],
            !.timers = Append(@, a.toasts + 1),
            !.toasts = @ + 1]

LastSixMutantKeepsSeven(history) ==
  IF Len(history) <= 7 THEN history
  ELSE SubSeq(history, Len(history) - 6, Len(history))

\* history.slice(-6)
LastSix(history) ==
  IF Len(history) <= 6 THEN history
  ELSE SubSeq(history, Len(history) - 5, Len(history))

MaxMutantKeepsFirst(a, b) == a

Max(a, b) == IF a >= b THEN a ELSE b

SavedCheckInMutantCountsTwice(p, mood) ==
  [p EXCEPT !.checkInHistory    = Append(LastSix(p.checkInHistory), mood.value),
            !.journalsCompleted = p.journalsCompleted + 2,
            !.streak =
               [currentStreak   |-> p.streak.currentStreak + 1,
                longestStreak   |-> Max(p.streak.longestStreak,
                                        p.streak.currentStreak + 1),
                totalActiveDays |-> p.streak.totalActiveDays + 1]]

\* the updater handed to setState by logVibe
SavedCheckIn(p, mood) ==
  [p EXCEPT !.checkInHistory    = Append(LastSix(p.checkInHistory), mood.value),
            !.journalsCompleted = p.journalsCompleted + 1,
            !.streak =
               [currentStreak   |-> p.streak.currentStreak + 1,
                longestStreak   |-> Max(p.streak.longestStreak,
                                        p.streak.currentStreak + 1),
                totalActiveDays |-> p.streak.totalActiveDays + 1]]

\* post.content.trim() of the contents drawn below
Trimmed(content) == IF content = "   " THEN "" ELSE content

\* the updater handed to setState by submitPost; the contents drawn are
\* shorter than the preview length, and the id (Date.now()) is left out
PostedTo(p, post) ==
  [p EXCEPT !.forumPosts =
     << [category |-> post.category, flagged |-> FALSE, preview |-> post.content] >>
     \o p.forumPosts]

\* state.checkInHistory.reduce((a, b) => a + b, 0) / state.checkInHistory.length,
\* as the fraction << hundredths, Hundredths * length >>; 0/0 for no history
RECURSIVE SumOf(_)
SumOf(history) ==
  IF history = << >> THEN 0 ELSE Head(history).hundredths + SumOf(Tail(history))

avg(state) == << SumOf(state.checkInHistory), Hundredths * Len(state.checkInHistory) >>

MaxToasts == 3

PostContents == {"", "   ", "Rough week"}

PostCategories == {"Anxiety", "Stress"}

\* App is rendered once, without props; res tells whether the last handler
\* saved a check-in and prev counts the check-ins saved so far
InitDashboard ==
  /\ app = InitialApp
  /\ registry = Registry
  /\ call = Call("App", [props |-> "none"])
  /\ res = [saved |-> FALSE]
  /\ prev = [fn |-> "App", checkIns |-> 0]

\* onClick of a mood button
SelectMood ==
  /\ \E i \in DOMAIN VIBE_SCALE :
       app' = [app EXCEPT !.mood = VIBE_SCALE[i], !.valMsg = NoValMsg]
  /\ res' = [saved |-> FALSE]
  /\ UNCHANGED << call, prev, registry >>

\* onClick of a navigation button
SetTab ==
  /\ \E i \in DOMAIN TABS : app' = [app EXCEPT !.tab = TABS[i]]
  /\ res' = [saved |-> FALSE]
  /\ UNCHANGED << call, prev, registry >>

LogVibeMutantSavesWithoutValidation ==
  /\ app.toasts < MaxToasts
  /\ LET mood == IF app.mood = NoMood THEN VIBE_SCALE[3] ELSE app.mood
     IN  app' = [ShowToast(app, [text |-> "Vibe logged!", label |-> mood.label,
                                 value |-> mood.value], TRUE)
                   EXCEPT !.state = SavedCheckIn(app.state, mood),
                          !.mood  = NoMood]
  /\ res' = [saved |-> TRUE]
  /\ prev' = [prev EXCEPT !.checkIns = @ + 1]
  /\ UNCHANGED << call, registry >>

LogVibe ==
  /\ app.toasts < MaxToasts
  /\ IF app.mood = NoMood
       THEN /\ app' = ShowToast(app, [text |-> "Select a mood first!"], FALSE)
            /\ res' = [saved |-> FALSE]
            /\ UNCHANGED prev
       ELSE LET r == validateCheckIn([moodValue |-> app.mood.value,
                                      moodLabel |-> app.mood.label])
            IN  IF r.valid
                  THEN /\ app' = [ShowToast(app, [text |-> "Vibe logged!",
                                                  label |-> app.mood.label,
                                                  value |-> app.mood.value], TRUE)
                                    EXCEPT !.valMsg = r,
                                           !.state  = SavedCheckIn(app.state, app.mood),
                                           !.mood   = NoMood]
                       /\ res' = [saved |-> TRUE]
                       /\ prev' = [prev EXCEPT !.checkIns = @ + 1]
                  ELSE /\ app' = [ShowToast(app, [text |-> "error", error |-> r.error], FALSE)
                                    EXCEPT !.valMsg = r]
                       /\ res' = [saved |-> FALSE]
                       /\ UNCHANGED prev
  /\ UNCHANGED << call, registry >>

\* onClick of a category chip of the forum form
SetPostCategory ==
  /\ \E cat \in PostCategories : app' = [app EXCEPT !.post.category = cat]
  /\ res' = [saved |-> FALSE]
  /\ UNCHANGED << call, prev, registry >>

\* onChange of the forum form's textarea
SetPostContent ==
  /\ \E content \in PostContents : app' = [app EXCEPT !.post.content = content]
  /\ res' = [saved |-> FALSE]
  /\ UNCHANGED << call, prev, registry >>

SubmitPost ==
  /\ app.toasts < MaxToasts
  /\ res' = [saved |-> FALSE]
  /\ IF Trimmed(app.post.content) = ""
       THEN app' = ShowToast(app, [text |-> "Write something first!"], FALSE)
       ELSE app' = [ShowToast(app, [text |-> "Post submitted anonymously."], TRUE)
                      EXCEPT !.state = PostedTo(app.state, app.post),
                             !.post  = EmptyPost]
  /\ UNCHANGED << call, prev, registry >>

\* the oldest pending setTimeout callback runs: setToast(null)
TimerFires ==
  /\ app.timers # << >>
  /\ app' = [app EXCEPT !.toast = NoToast, !.timers = Tail(@)]
  /\ res' = [saved |-> FALSE]
  /\ UNCHANGED << call, prev, registry >>

NextDashboard ==
  \/ SelectMood
  \/ SetTab
  \/ LogVibe
  \/ SetPostCategory
  \/ SetPostContent
  \/ SubmitPost
  \/ TimerFires

SpecDashboard == InitDashboard /\ [][NextDashboard]_vars

(***************************************************************************)
(* Check-ins continued from a dashboard that has already saved some: the    *)
(* state after k check-ins of mood Good whose toasts have expired, toasts   *)
(* counting the toast$ calls made from then on                              *)
(***************************************************************************)
MaxEarlierCheckIns == 7

RECURSIVE AfterCheckIns(_)
AfterCheckIns(k) ==
  IF k = 0 THEN INITIAL_STATE
  ELSE SavedCheckIn(AfterCheckIns(k - 1), VIBE_SCALE[4])

InitCheckIns ==
  /\ \E k \in 0 .. MaxEarlierCheckIns :
       /\ app = [InitialApp EXCEPT
                   !.state  = AfterCheckIns(k),
                   !.valMsg = IF k = 0 THEN NoValMsg
                              ELSE validateCheckIn([moodValue |-> VIBE_SCALE[4].value,
                                                    moodLabel |-> VIBE_SCALE[4].label])]
       /\ prev = [fn |-> "App", checkIns |-> k]
  /\ registry = Registry
  /\ call = Call("App", [props |-> "none"])
  /\ res = [saved |-> FALSE]

NextCheckIns ==
  \/ SelectMood
  \/ LogVibe
  \/ TimerFires

SpecCheckIns == InitCheckIns /\ [][NextCheckIns]_vars

(***************************************************************************)
(* Properties                                                               *)
(***************************************************************************)
Done(fn) == call.fn = fn /\ res # Pending

ErrorsOfKind(result, kind) ==
  {result.errors[i] : i \in {j \in DOMAIN result.errors : result.errors[j].kind = kind}}

HasError(result, kind) == ErrorsOfKind(result, kind) # {}

\* C1: the record made of in-domain inputs and the healthScore and
\* engagementTier that computeHealthScore returns for them is accepted by
\* validateHealthScore (valid, so no tier/score mismatch).
C1_InputsOf(record) ==
  [streakDays       |-> record.streakDays,
   vibeCheckIns     |-> record.vibeCheckIns,
   averageVibeScore |-> record.averageVibeScore,
   loginCount       |-> record.loginCount]

C1_ComputedRecordIsAccepted ==
  (/\ Done("validateHealthScore")
   /\ C1_InputsOf(call.arg) \in HealthInputs
   /\ call.arg = RecordOf(C1_InputsOf(call.arg),
                          computeHealthScore(C1_InputsOf(call.arg))))
    => res.valid /\ ~HasError(res, "TierScoreMismatch")

\* C2: every integer score 0..100 lies in exactly one tier, the same one in
\* the ENGAGEMENT_TIERS table, in tierBounds (validateHealthScore reports no
\* mismatch for that tier alone) and in computeHealthScore's threshold chain;
\* 25 is Low, 26 and 50 Moderate, 51 and 75 High, 76 Excellent.
C2_Boundaries ==
  [s \in {25, 26, 50, 51, 75, 76} |->
     CASE s = 25 -> "Low"
       [] s \in {26, 50} -> "Moderate"
       [] s \in {51, 75} -> "High"
       [] s = 76 -> "Excellent"]

C2_IntegerScore(score) ==
  IsInteger(score) /\ ~LessThan(score, 0) /\ ~GreaterThan(score, 100)

C2_TiersPartitionIntegerScores ==
  (Done("validateHealthScore") /\ C2_IntegerScore(call.arg.healthScore)) =>
    LET score == call.arg.healthScore
        chain == TierOfScore(score)
    IN  /\ TiersContaining(score) = {chain}
        /\ BoundsContaining(score) = {chain}
        /\ call.arg.engagementTier \in DOMAIN tierBounds =>
             (HasError(res, "TierScoreMismatch") <=> call.arg.engagementTier # chain)
        /\ \A s \in DOMAIN C2_Boundaries :
             score = Whole(s) => chain = C2_Boundaries[s]

C2_Witness ==
  /\ Done("validateHealthScore")
  /\ call.arg.healthScore = Whole(26)
  /\ call.arg.engagementTier = "Moderate"
  /\ ~HasError(res, "TierScoreMismatch")

\* C3: for a registry label, validateVibeCheckIn reports a homomorphism
\* violation exactly when the registry's value for the label differs from
\* moodValue, naming the registry's value as expected and moodValue as given;
\* (3, "Great") is invalid with expected value 5, and the dashboard's
\* validateCheckIn rejects (3, "Great") with "should map to 5, got 3".
C3_RegistryValue(label) ==
  VIBE_ORDER[CHOOSE i \in DOMAIN VIBE_ORDER : VIBE_ORDER[i].label = label].value

C3_HomomorphismViolationIffValueDiffers ==
  /\ (Done("validateVibeCheckIn") /\ call.arg.moodLabel \in VibeLabels) =>
       LET expected == C3_RegistryValue(call.arg.moodLabel)
       IN  /\ ErrorsOfKind(res, "Homomorphism") =
                (IF expected # call.arg.moodValue
                   THEN {HomomorphismError(call.arg.moodLabel, expected,
                                           call.arg.moodValue)}
                   ELSE {})
           /\ (call.arg.moodLabel = "Great" /\ call.arg.moodValue = Whole(3)) =>
                /\ ~res.valid
                /\ \E e \in ErrorsOfKind(res, "Homomorphism") :
                     e.expected = Whole(5) /\ e.given = Whole(3)
  /\ (Done("validateCheckIn") /\ call.arg = [moodValue |-> Whole(3), moodLabel |-> "Great"])
       => res = [valid |-> FALSE,
                 error |-> HomomorphismError("Great", Whole(5), Whole(3))]

C3_Witness ==
  /\ Done("validateVibeCheckIn")
  /\ call.arg = [moodValue |-> Whole(3), moodLabel |-> "Great"]
  /\ HasError(res, "Homomorphism")

\* C4: validateVibeCheckIn reports the out-of-range error exactly when
\* moodValue is not an integer in [1,5], whatever the label; (6, "Great") is
\* invalid with the out-of-range error and the homomorphism violation both.
C4_InRange(moodValue) ==
  \E n \in 1 .. 5 : moodValue = Whole(n)

C4_RangeRuleIndependentOfLabel ==
  Done("validateVibeCheckIn") =>
    /\ HasError(res, "OrdinalRange") <=> ~C4_InRange(call.arg.moodValue)
    /\ (call.arg = [moodValue |-> Whole(6), moodLabel |-> "Great"]) =>
         /\ ~res.valid
         /\ HasError(res, "OrdinalRange")
         /\ HasError(res, "Homomorphism")

C4_Witness ==
  /\ Done("validateVibeCheckIn")
  /\ call.arg = [moodValue |-> Whole(6), moodLabel |-> "Great"]
  /\ Len(res.errors) = 2

\* C5: for every moodLabel that is not one of the five registry labels (an
\* absent label and any other string included) validateVibeCheckIn reports
\* the unknown-label error and no homomorphism violation.
C5_UnknownLabelReported ==
  (Done("validateVibeCheckIn") /\ call.arg.moodLabel \notin VibeLabels) =>
    /\ HasError(res, "UnknownLabel")
    /\ ~HasError(res, "Homomorphism")

\* C6: each of the registry's own pairs (1,Terrible), (2,Down), (3,Neutral),
\* (4,Good), (5,Great) is valid with an empty error list.
C6_RegistryPairs ==
  {[moodValue |-> Whole(1), moodLabel |-> "Terrible"],
   [moodValue |-> Whole(2), moodLabel |-> "Down"],
   [moodValue |-> Whole(3), moodLabel |-> "Neutral"],
   [moodValue |-> Whole(4), moodLabel |-> "Good"],
   [moodValue |-> Whole(5), moodLabel |-> "Great"]}

C6_RegistryPairsAreValid ==
  (Done("validateVibeCheckIn") /\ call.arg \in C6_RegistryPairs) =>
    res.valid /\ res.errors = << >>

C6_Witness ==
  /\ Done("validateVibeCheckIn")
  /\ call.arg = [moodValue |-> Whole(5), moodLabel |-> "Great"]
  /\ res.valid

\* C7: each of the five validators returns valid = true exactly when the
\* error list it returns is empty.
C7_Validators ==
  {"validateVibeCheckIn", "validateVibeTimestamps", "validateStreak",
   "validateSupportCategory", "validateHealthScore"}

C7_ValidIffNoErrors ==
  (call.fn \in C7_Validators /\ res # Pending) =>
    (res.valid <=> res.errors = << >>)

C7_Witness ==
  /\ Done("validateHealthScore")
  /\ ~res.valid
  /\ Len(res.errors) >= 2

\* C8: with the default ceilings (30, 30, 60) healthScore is the weighted sum
\* 0.40*normStreak + 0.35*normVibe + 0.15*normLogins + 0.10*normCheckins
\* rounded to two decimals, where normStreak = min(streakDays/30,1)*100,
\* normCheckins = min(vibeCheckIns/30,1)*100, normLogins =
\* min(loginCount/60,1)*100 and normVibe = (averageVibeScore-1)/4*100; for
\* (10, 20, 3.8, 30) the breakdown is 33.33 / 70 / 50 / 66.67, the score 52.0
\* and the tier High.
C8_Min(a, b) == IF a < b THEN a ELSE b

\* the weighted sum in twelfths of a hundredth: streakDays/30*100*0.40 is
\* 1600/12 hundredths a day, loginCount/60*100*0.15 is 300/12 a login,
\* vibeCheckIns/30*100*0.10 is 400/12 a check-in, and (v-1)/4*100*0.35 is
\* 105/12 for each hundredth of averageVibeScore above 1
C8_Twelfths(p) ==
  1600 * C8_Min(p.streakDays.hundredths \div 100, 30)
  + 300 * C8_Min(p.loginCount.hundredths \div 100, 60)
  + 400 * C8_Min(p.vibeCheckIns.hundredths \div 100, 30)
  + 105 * (p.averageVibeScore.hundredths - 100)

C8_Example ==
  [streakDays |-> Whole(10), vibeCheckIns |-> Whole(20),
   averageVibeScore |-> Num(380), loginCount |-> Whole(30)]

C9_InPercentRange(v) == IsNumber(v) /\ v.hundredths >= 0 /\ v.hundredths <= 10000

C9_ScoreAndBreakdownBounded ==
  Done("computeHealthScore") =>
    /\ C9_InPercentRange(res.healthScore)
    /\ \A k \in DOMAIN res.breakdown : C9_InPercentRange(res.breakdown[k])

C9_Witness ==
  /\ Done("computeHealthScore")
  /\ GreaterThan(call.arg.streakDays, 30)
  /\ GreaterThan(call.arg.vibeCheckIns, 30)
  /\ GreaterThan(call.arg.loginCount, 60)
  /\ call.arg.averageVibeScore = Whole(5)
  /\ res.healthScore = Whole(100)

\* C10: of two calls that differ in one input only, the call with the larger
\* value of that input returns a healthScore at least as large.
C10_DiffersInOneInputRaised(low, high) ==
  /\ \A k \in DOMAIN low : ~Less(high[k], low[k])
  /\ Cardinality({k \in DOMAIN low : low[k] # high[k]}) = 1

C10_MonotoneInEachInput ==
  (/\ Done("computeHealthScore")
   /\ prev # NoPrev
   /\ C10_DiffersInOneInputRaised(prev.arg, call.arg))
    => ~Less(res.healthScore, prev.res.healthScore)

C10_Witness ==
  /\ Done("computeHealthScore")
  /\ prev # NoPrev
  /\ C10_DiffersInOneInputRaised(prev.arg, call.arg)
  /\ prev.arg.averageVibeScore # call.arg.averageVibeScore
  /\ Less(prev.res.healthScore, res.healthScore)

\* C11: whenever the composite score lies outside [0,100], below 0 or above
\* 100, the derived tier is the lowest one, Low, in the dashboard's table
\* lookup and in the validation module's threshold chain alike.
C11_Outside(score) == LessThan(score, 0) \/ GreaterThan(score, 100)

C11_OutOfRangeScoreFallsBackToLow ==
  /\ (Done("computeHealthScoreDashboard") /\ C11_Outside(res.score))
       => res.tier = "Low"
  /\ (Done("computeHealthScore") /\ C11_Outside(res.healthScore))
       => res.engagementTier = "Low"

\* C12: validateHealthScore returns exactly one error per violated rule and
\* nothing else: the interval error iff healthScore is not in [0,100], the
\* unknown-tier error iff engagementTier is not Low, Moderate, High or
\* Excellent, the mismatch iff the tier is known and healthScore is outside
\* its bounds, one non-negative-integer error per offending field among
\* streakDays, vibeCheckIns, loginCount, and the averageVibeScore error iff it
\* is not in [1,5]; {15, Excellent} with valid inputs yields exactly the
\* mismatch and {72.5, High} with valid inputs is valid.
C12_Within(v, lo, hi) == IsNumber(v) /\ ~LessThan(v, lo) /\ ~GreaterThan(v, hi)

C12_KnownTiers == {"Low", "Moderate", "High", "Excellent"}

C12_TierRange ==
  [Low |-> << 0, 25 >>, Moderate |-> << 26, 50 >>,
   High |-> << 51, 75 >>, Excellent |-> << 76, 100 >>]

C12_NonNegativeInteger(v) == IsInteger(v) /\ ~LessThan(v, 0)

C12_Expected(r) ==
  (IF ~C12_Within(r.healthScore, 0, 100)
     THEN {IntervalError(r.healthScore)} ELSE {})
  \cup (IF r.engagementTier \notin C12_KnownTiers
          THEN {UnknownTierError(r.engagementTier)} ELSE {})
  \cup (IF /\ r.engagementTier \in C12_KnownTiers
           /\ \/ LessThan(r.healthScore, C12_TierRange[r.engagementTier][1])
              \/ GreaterThan(r.healthScore, C12_TierRange[r.engagementTier][2])
          THEN {TierMismatchError(r.engagementTier,
                                  C12_TierRange[r.engagementTier][1],
                                  C12_TierRange[r.engagementTier][2], r.healthScore)}
          ELSE {})
  \cup {NonNegativeIntegerError(f, r[f]) :
          f \in {g \in {"streakDays", "vibeCheckIns", "loginCount"} :
                   ~C12_NonNegativeInteger(r[g])}}
  \cup (IF ~C12_Within(r.averageVibeScore, 1, 5)
          THEN {AverageVibeError(r.averageVibeScore)} ELSE {})

C12_ValidInputs(r) ==
  /\ r.streakDays = Whole(7)
  /\ r.vibeCheckIns = Whole(15)
  /\ r.averageVibeScore = Num(420)
  /\ r.loginCount = Whole(20)

C12_OneErrorPerViolatedRule ==
  Done("validateHealthScore") =>
    /\ {res.errors[i] : i \in DOMAIN res.errors} = C12_Expected(call.arg)
    /\ Len(res.errors) = Cardinality(C12_Expected(call.arg))
    /\ (/\ C12_ValidInputs(call.arg)
        /\ call.arg.healthScore = Whole(15)
        /\ call.arg.engagementTier = "Excellent")
         => res.errors = << TierMismatchError("Excellent", 76, 100, Whole(15)) >>
    /\ (/\ C12_ValidInputs(call.arg)
        /\ call.arg.healthScore = Num(7250)
        /\ call.arg.engagementTier = "High")
         => res.valid

\* C13: validateStreak is valid iff the three counts are non-negative
\* integers with longestStreak >= currentStreak and totalActiveDays >=
\* currentStreak; it collects one error per offending field, the
\* longest-below-current error iff longestStreak < currentStreak and the
\* total-below-current error iff totalActiveDays < currentStreak; (10, 5, 15)
\* gives exactly the longest-below-current error, (-1, 5, 10) exactly one
\* field error, (7, 14, 20) is valid.
C13_Fields == {"currentStreak", "longestStreak", "totalActiveDays"}

C13_Offending(s) == {f \in C13_Fields : ~(IsInteger(s[f]) /\ ~LessThan(s[f], 0))}

C13_Streak(c, l, t) ==
  [currentStreak |-> Whole(c), longestStreak |-> Whole(l), totalActiveDays |-> Whole(t)]

C13_StreakRules ==
  Done("validateStreak") =>
    LET s == call.arg IN
    /\ res.valid <=> /\ C13_Offending(s) = {}
                     /\ GreaterEq(s.longestStreak, s.currentStreak)
                     /\ GreaterEq(s.totalActiveDays, s.currentStreak)
    /\ ErrorsOfKind(res, "NonNegativeInteger")
         = {NonNegativeIntegerError(f, s[f]) : f \in C13_Offending(s)}
    /\ HasError(res, "LongestBelowCurrent")
         <=> Less(s.longestStreak, s.currentStreak)
    /\ HasError(res, "TotalBelowCurrent")
         <=> Less(s.totalActiveDays, s.currentStreak)
    /\ Len(res.errors)
         = Cardinality(C13_Offending(s))
           + (IF Less(s.longestStreak, s.currentStreak) THEN 1 ELSE 0)
           + (IF Less(s.totalActiveDays, s.currentStreak) THEN 1 ELSE 0)
    /\ s = C13_Streak(10, 5, 15)
         => res.errors = << LongestBelowCurrentError(Whole(5), Whole(10)) >>
    /\ s = C13_Streak(-1, 5, 10)
         => res.errors = << NonNegativeIntegerError("currentStreak", Whole(-1)) >>
    /\ s = C13_Streak(7, 14, 20) => res.valid

C13_Witness ==
  /\ Done("validateStreak")
  /\ call.arg = C13_Streak(10, -1, 5)
  /\ Len(res.errors) = 3

\* C14: for check-ins ordered by recordedAt, validateVibeTimestamps is valid
\* iff no two elements share an instant; it emits exactly one
\* duplicate-timestamp error per element that repeats an earlier one, carrying
\* that element's index (>= 1), so the number of errors is the length minus
\* the number of distinct instants; the empty and the one-element sequence are
\* valid.
C14_Ordered(q) == \A i, j \in DOMAIN q : i <= j => q[i] <= q[j]

\* 0-based indices of the elements whose instant already occurred earlier
C14_Duplicates(q) == {i \in 1 .. Len(q) - 1 : \E j \in 0 .. i - 1 : q[j + 1] = q[i + 1]}

C14_OneErrorPerDuplicate ==
  (Done("validateVibeTimestamps") /\ C14_Ordered(call.arg.checkIns)) =>
    LET q == call.arg.checkIns IN
    /\ res.valid <=> \A i, j \in DOMAIN q : i # j => q[i] # q[j]
    /\ {res.errors[k] : k \in DOMAIN res.errors}
         = {DuplicateTimestampError(i, q[i + 1]) : i \in C14_Duplicates(q)}
    /\ Len(res.errors) = Len(q) - Cardinality({q[i] : i \in DOMAIN q})
    /\ \A k \in DOMAIN res.errors : res.errors[k].index >= 1
    /\ Len(q) <= 1 => res.valid

C14_Witness ==
  /\ Done("validateVibeTimestamps")
  /\ C14_Ordered(call.arg.checkIns)
  /\ Len(call.arg.checkIns) = 4
  /\ Len(res.errors) = 2
  /\ Cardinality({call.arg.checkIns[i] : i \in DOMAIN call.arg.checkIns}) = 2

\* C15: validateSupportCategory is valid iff the label is one of the seven
\* fixed categories; any other value, the empty string included, yields exactly
\* one unknown-category error naming the value and listing all seven.
C15_SevenCategories ==
  {"Anxiety", "Depression", "Stress", "Burnout",
   "Study Tips", "Relationships", "General Wellness"}

C15_ClosedMembership ==
  Done("validateSupportCategory") =>
    LET category == call.arg.category IN
    /\ Cardinality(C15_SevenCategories) = 7
    /\ res.valid <=> category \in C15_SevenCategories
    /\ category \in C15_SevenCategories => res.errors = << >>
    /\ category \notin C15_SevenCategories =>
         /\ Len(res.errors) = 1
         /\ res.errors[1].kind = "UnknownCategory"
         /\ res.errors[1].category = category
         /\ res.errors[1].validClasses = C15_SevenCategories

C15_Witness ==
  /\ Done("validateSupportCategory")
  /\ call.arg.category = ""
  /\ ~res.valid

\* C16: validateFullSnapshot applies the check-in, streak, category and
\* health-score validators to the corresponding parts of the snapshot and
\* returns exactly those four results; allValid is true iff all four are valid.
C16_FourResultsAndTheirConjunction ==
  Done("validateFullSnapshot") =>
    LET snapshot == call.arg IN
    /\ DOMAIN res = {"allValid", "results"}
    /\ DOMAIN res.results = {"vibeCheckIn", "streak", "category", "healthScore"}
    /\ "latestCheckIn" \in DOMAIN snapshot
         => res.results.vibeCheckIn = validateVibeCheckIn(snapshot.latestCheckIn)
    /\ "streak" \in DOMAIN snapshot
         => res.results.streak = validateStreak(snapshot.streak)
    /\ "category" \in DOMAIN snapshot
         => res.results.category = validateSupportCategory(snapshot.category)
    /\ "healthScore" \in DOMAIN snapshot
         => res.results.healthScore = validateHealthScore(snapshot.healthScore)
    /\ res.allValid <=> /\ res.results.vibeCheckIn.valid
                        /\ res.results.streak.valid
                        /\ res.results.category.valid
                        /\ res.results.healthScore.valid

C16_Witness ==
  /\ Done("validateFullSnapshot")
  /\ DOMAIN call.arg = {"latestCheckIn", "streak", "category", "healthScore"}
  /\ ~res.allValid
  /\ res.results.vibeCheckIn.valid
  /\ res.results.streak.valid
  /\ res.results.category.valid
  /\ ~res.results.healthScore.valid

\* C17: domain violations are returned, never raised: validateVibeTimestamps
\* returns a {valid, errors} result whatever its elements hold or lack, and
\* validateFullSnapshot on a snapshot lacking latestCheckIn, streak, category
\* or healthScore validates the missing part as empty, returns four
\* {valid, errors} results and allValid = false.
C17_IsResult(r) == DOMAIN r = {"valid", "errors"}

C17_MissingPartIsValidatedAsEmpty ==
  Done("validateFullSnapshot") =>
    LET snapshot == call.arg IN
    /\ \A k \in DOMAIN res.results : C17_IsResult(res.results[k])
    /\ "latestCheckIn" \notin DOMAIN snapshot
         => res.results.vibeCheckIn = validateVibeCheckIn(EmptyCheckIn) /\ ~res.allValid
    /\ "streak" \notin DOMAIN snapshot
         => res.results.streak = validateStreak(EmptyStreak) /\ ~res.allValid
    /\ "category" \notin DOMAIN snapshot
         => res.results.category = validateSupportCategory("") /\ ~res.allValid
    /\ "healthScore" \notin DOMAIN snapshot
         => res.results.healthScore = validateHealthScore(EmptyHealthScore) /\ ~res.allValid

C17_ViolationsAreReturnedNotRaised ==
  /\ C17_MissingPartIsValidatedAsEmpty
  /\ Done("validateVibeTimestamps") => C17_IsResult(res)

C19_Defaults == [streakDays |-> 30, vibeCheckIns |-> 30, loginCount |-> 60]

C20_Labels == {"Terrible", "Down", "Neutral", "Good", "Great"}

C20_LookedUpBack(by) ==
  /\ call.fn = "lookup"
  /\ res # Pending
  /\ res.by = by
  /\ "back" \in DOMAIN res

C20_BijectionAndInverseLookups ==
  LET order == registry.VIBE_ORDER IN
  /\ Len(order) = 5
  /\ \A i \in DOMAIN order : order[i].value = Whole(i)
  /\ {order[i].label : i \in DOMAIN order} = C20_Labels
  /\ Cardinality(C20_Labels) = 5
  /\ (call.fn = "lookup" /\ res # Pending /\ res.by = "label"
        /\ call.arg.moodLabel \in C20_Labels)
       => /\ res.entry \in {order[i] : i \in DOMAIN order}
          /\ res.entry.label = call.arg.moodLabel
  /\ (call.fn = "lookup" /\ res # Pending /\ res.by = "value"
        /\ call.arg.moodValue \in {Whole(v) : v \in 1 .. 5})
       => /\ res.entry \in {order[i] : i \in DOMAIN order}
          /\ res.entry.value = call.arg.moodValue
  /\ (C20_LookedUpBack("label") /\ call.arg.moodLabel \in C20_Labels)
       => res.back = res.entry
  /\ (C20_LookedUpBack("value")
        /\ call.arg.moodValue \in {Whole(v) : v \in 1 .. 5})
       => res.back = res.entry

C20_Witness ==
  /\ C20_LookedUpBack("label")
  /\ call.arg.moodLabel = "Good"
  /\ res.entry.value = Whole(4)
  /\ res.back.label = "Good"

\* C21: in the dashboard a vibe submission is validated before anything is
\* saved: a step changes the stored checkInHistory, journalsCompleted or streak
\* only if a mood was selected and validateCheckIn accepts that mood's
\* (value, label); with no mood selected, or a mood that fails validation, the
\* stored state stays as it is.
C21_Stored(a) ==
  << a.state.checkInHistory, a.state.journalsCompleted, a.state.streak >>

C21_Accepted(mood) ==
  /\ mood # NoMood
  /\ validateCheckIn([moodValue |-> mood.value, moodLabel |-> mood.label]).valid

C21_SavedOnlyWhenValidated ==
  [][C21_Stored(app') # C21_Stored(app) => C21_Accepted(app.mood)]_vars

C21_Witness ==
  /\ res.saved
  /\ app.valMsg.valid
  /\ app.state.journalsCompleted = 19
  /\ app.toast.ok

\* C22: each successful check-in raises journalsCompleted by exactly 1 and no
\* other step (failed submission, forum post, tab switch, mood selection,
\* timer) changes it, so after n successful check-ins it is 18 + n.
C22_JournalsCountCheckIns ==
  /\ [](app.state.journalsCompleted = 18 + prev.checkIns)
  /\ [][app'.state.journalsCompleted
          = app.state.journalsCompleted + (IF res'.saved THEN 1 ELSE 0)]_vars

C22_Witness ==
  /\ res.saved
  /\ prev.checkIns = 3
  /\ app.state.journalsCompleted = 21

\* C23: in every reachable dashboard state checkInHistory is a window of 7
\* mood values, each in 1..5, never empty; a successful check-in replaces it by
\* its last six entries followed by the newest value (the oldest is dropped)
\* and no other step touches it, so the average vibe handed to
\* computeHealthScore lies in [1,5].
C23_MoodValues == {Whole(v) : v \in 1 .. 5}

C23_SevenValueWindow ==
  /\ [](LET history == app.state.checkInHistory
            average == avg(app.state)
        IN  /\ Len(history) = 7
            /\ \A i \in DOMAIN history : history[i] \in C23_MoodValues
            /\ average[2] > 0
            /\ 1 * average[2] <= average[1]
            /\ average[1] <= 5 * average[2])
  /\ [][app'.state.checkInHistory
          = IF res'.saved
              THEN SubSeq(app.state.checkInHistory, 2, 7) \o << app.mood.value >>
              ELSE app.state.checkInHistory]_vars

C23_Witness ==
  /\ res.saved
  /\ prev.checkIns = 2
  /\ app.state.checkInHistory
       = << Whole(5), Whole(2), Whole(4), Whole(5), Whole(3), Whole(1), Whole(5) >>

\* C24: the two tier derivations agree on every score computeHealthScore
\* produces from in-domain inputs, non-integer scores included: the lookup in
\* the ENGAGEMENT_TIERS min/max table with fall-back to the first entry gives
\* the same label as the chain >= 76 Excellent, >= 51 High, >= 26 Moderate,
\* else Low.
C24_InDomain(vibe) == ~LessThan(vibe, 1) /\ ~GreaterThan(vibe, 5)

C24_TierDerivationsAgree ==
  /\ (Done("computeHealthScoreDashboard") /\ C24_InDomain(call.arg.avgVibeScore))
       => res.tier = TierOfScore(res.score)
  /\ (Done("computeHealthScore") /\ C24_InDomain(call.arg.averageVibeScore))
       => res.engagementTier = FindTier(res.healthScore).label

\* C25: normalisation saturates at the ceilings: a value of streakDays,
\* vibeCheckIns or loginCount at or above its ceiling (30, 30 and 60 by
\* default, else the call's maxValues) gives the same healthScore,
\* engagementTier and breakdown as the ceiling itself, the other inputs equal.
C25_Ceilings(params) ==
  IF "maxValues" \in DOMAIN params THEN params.maxValues
  ELSE [streakDays |-> 30, vibeCheckIns |-> 30, loginCount |-> 60]

C25_Counts == {"streakDays", "vibeCheckIns", "loginCount"}

C25_AtOrAbove(params) ==
  {k \in C25_Counts : ~LessThan(params[k], C25_Ceilings(params)[k])}

\* params with the counts at or above their ceiling replaced by the ceiling
C25_AtCeiling(params) ==
  [k \in DOMAIN params |->
     IF k \in C25_AtOrAbove(params)
       THEN Whole(C25_Ceilings(params)[k]) ELSE params[k]]

C25_SaturatesAtCeilings ==
  Done("computeHealthScore") => res = computeHealthScore(C25_AtCeiling(call.arg))

C25_Witness ==
  /\ Done("computeHealthScore")
  /\ "maxValues" \in DOMAIN call.arg
  /\ C25_AtOrAbove(call.arg) = C25_Counts
  /\ C25_AtCeiling(call.arg) # call.arg
  /\ res.breakdown.normStreak = Whole(100)
  /\ res.breakdown.normLogins = Whole(100)
  /\ res.breakdown.normCheckins = Whole(100)

\* C26: the four weights sum to exactly 1: with streakDays, vibeCheckIns and
\* loginCount at or above their ceilings and averageVibeScore 5,
\* computeHealthScore returns healthScore exactly 100 and tier Excellent; with
\* the three counts 0 and averageVibeScore 1 it returns exactly 0 and tier Low.
C26_AllAtCeiling(params) ==
  /\ ~LessThan(params.streakDays, 30)
  /\ ~LessThan(params.vibeCheckIns, 30)
  /\ ~LessThan(params.loginCount, 60)
  /\ params.averageVibeScore = Whole(5)

C26_AllAtFloor(params) ==
  /\ params.streakDays = Whole(0)
  /\ params.vibeCheckIns = Whole(0)
  /\ params.loginCount = Whole(0)
  /\ params.averageVibeScore = Whole(1)

C26_ExtremesAreExact ==
  Done("computeHealthScore") =>
    /\ C26_AllAtCeiling(call.arg)
         => res.healthScore = Whole(100) /\ res.engagementTier = "Excellent"
    /\ C26_AllAtFloor(call.arg)
         => res.healthScore = Whole(0) /\ res.engagementTier = "Low"

C26_Witness ==
  /\ Done("computeHealthScore")
  /\ C26_AllAtCeiling(call.arg)
  /\ call.arg.streakDays = Whole(BigCount)
  /\ call.arg.loginCount = Whole(60)
  /\ res.healthScore = Whole(100)

\* C27: in every dashboard state reached from (currentStreak 7, longestStreak
\* 14, totalActiveDays 28) by check-ins the streak record obeys the streak
\* rules (three non-negative integers, longestStreak >= currentStreak,
\* totalActiveDays >= currentStreak); a successful check-in raises
\* currentStreak and totalActiveDays by exactly 1 and sets longestStreak to
\* max(longestStreak, new currentStreak); no counter ever decreases.
C27_AsStreak(k) ==
  [currentStreak   |-> Whole(k.currentStreak),
   longestStreak   |-> Whole(k.longestStreak),
   totalActiveDays |-> Whole(k.totalActiveDays)]

C27_StreakRulesPreserved ==
  /\ [](LET k == app.state.streak
        IN  /\ k.currentStreak \in Nat
            /\ k.longestStreak \in Nat
            /\ k.totalActiveDays \in Nat
            /\ k.longestStreak >= k.currentStreak
            /\ k.totalActiveDays >= k.currentStreak
            /\ validateStreak(C27_AsStreak(k)).valid)
  /\ [][LET a == app.state.streak
            b == app'.state.streak
        IN  /\ b.currentStreak >= a.currentStreak
            /\ b.longestStreak >= a.longestStreak
            /\ b.totalActiveDays >= a.totalActiveDays
            /\ IF res'.saved
                 THEN /\ b.currentStreak = a.currentStreak + 1
                      /\ b.totalActiveDays = a.totalActiveDays + 1
                      /\ b.longestStreak
                           = IF a.longestStreak >= a.currentStreak + 1
                               THEN a.longestStreak ELSE a.currentStreak + 1
                 ELSE b = a]_vars

C27_Witness ==
  /\ res.saved
  /\ app.state.streak.currentStreak = 15
  /\ app.state.streak.longestStreak = 15
  /\ app.state.streak.totalActiveDays = 36

\* C28: a toast stays displayed until the timer started by the same toast$
\* call fires: whenever a displayed toast is cleared, the callback that clears
\* it is the one started with that toast, never the timer of an earlier
\* toast, for every interleaving of check-in submissions, post submissions and
\* timer callbacks.
C28_ToastClearedByItsOwnTimer ==
  [][(app.toast # NoToast /\ app'.toast = NoToast)
       => (app.timers # << >> /\ Head(app.timers) = app.toast.id)]_vars

\* C29: in the dashboard's validateCheckIn the out-of-range result is
\* unreachable: for every (moodValue, moodLabel) it returns unknown-label,
\* homomorphism-violation or valid, never the ordinal-range error, so a
\* moodValue outside 1..5 with a known label is reported as a homomorphism
\* violation only; every mood the UI can select, an entry of VIBE_SCALE, is
\* valid.
C29_KnownLabels == {"Terrible", "Down", "Neutral", "Good", "Great"}

C29_OutOfRangeIsUnreachable ==
  Done("validateCheckIn") =>
    LET checkIn == call.arg IN
    /\ \/ res.valid /\ res.error = NoError
       \/ ~res.valid /\ res.error.kind \in {"UnknownLabel", "Homomorphism"}
    /\ res.error.kind # "OrdinalRange"
    /\ (/\ checkIn.moodLabel \in C29_KnownLabels
        /\ \/ ~IsNumber(checkIn.moodValue)
           \/ LessThan(checkIn.moodValue, 1)
           \/ GreaterThan(checkIn.moodValue, 5))
         => ~res.valid /\ res.error.kind = "Homomorphism"
    /\ (\E i \in DOMAIN VIBE_SCALE :
          /\ checkIn.moodValue = VIBE_SCALE[i].value
          /\ checkIn.moodLabel = VIBE_SCALE[i].label)
         => res.valid

C29_Witness ==
  /\ Done("validateCheckIn")
  /\ call.arg.moodValue = Whole(7)
  /\ call.arg.moodLabel = "Good"
  /\ res.error.kind = "Homomorphism"

\* C30: validateVibeTimestamps compares neighbours only: for any sequence,
\* ordered or not, it reports index i (1 <= i < length) iff element i has the
\* instant of element i-1, so equal instants separated by a different one are
\* not reported and such a sequence is valid; the input sequence is neither
\* reordered nor modified.
C30_NeighbourPairs(q) == {i \in 1 .. Len(q) - 1 : q[i + 1] = q[i]}

C30_ComparesNeighboursOnly ==
  /\ [](Done("validateVibeTimestamps") =>
          LET q == call.arg.checkIns IN
          /\ {res.errors[k].index : k \in DOMAIN res.errors} = C30_NeighbourPairs(q)
          /\ Len(res.errors) = Cardinality(C30_NeighbourPairs(q))
          /\ \A k \in DOMAIN res.errors :
               /\ res.errors[k].kind = "DuplicateTimestamp"
               /\ res.errors[k].instant = q[res.errors[k].index + 1]
               /\ \A l \in DOMAIN res.errors :
                    k < l => res.errors[k].index < res.errors[l].index
          /\ res.valid <=> C30_NeighbourPairs(q) = {})
  /\ [][call.fn = "validateVibeTimestamps" => call' = call]_vars

C30_Witness ==
  /\ Done("validateVibeTimestamps")
  /\ call.arg.checkIns = << 1, 0, 1 >>
  /\ res.valid

====
